---------------------------- MODULE Spec2Model ----------------------------
(***************************************************************************)
(* The stitching pipeline of MainPlayer (stitchVideos) as a state machine. *)
(*                                                                         *)
(* Times are integers in milliseconds: the code divides start_ms / end_ms  *)
(* by 1000 and works in seconds; every sum and difference it takes is the  *)
(* same in both units.  One step of the model is one awaited step of       *)
(* stitchVideos: the set-up, one iteration of the probe loop, start(),     *)
(* the head of a segment iteration, one decoded video sample, one decoded  *)
(* audio sample, one silence chunk, the tail of a segment iteration, the   *)
(* disposal of the cached inputs, finalize(), and the catch block.  An      *)
(* awaited call may also reject, or never settle.                          *)
(*                                                                         *)
(* Around the run: the mount effect of the MainPlayer instance, which may  *)
(* fire again, and its unmount (NextLifecycle); and App's queue of         *)
(* SegmentPlayers, one conversion per segment in list order, with the      *)
(* resets of Execute and of a project change (NextQueue).  MainPlayer and  *)
(* the SegmentPlayers share the props and nothing else, so each is run on  *)
(* its own.                                                                *)
(***************************************************************************)
EXTENDS Integers, Sequences, FiniteSets, TLC

VARIABLES
    segments,               \* props.segments
    sourceFiles,            \* props.sourceFiles
    media,                  \* what the file behind each source id holds
    pc,                     \* position of stitchVideos
    processingRef,          \* useRef<boolean>
    status, error, videoUrl, progress,          \* last value given to each setter
    targetWidth, targetHeight,                  \* target frame size
    sampleRate, numberOfChannels,               \* target audio profile
    probeIdx,               \* position of the probe loop
    inputCache,             \* keys of the Map<number, Input>
    opened, disposed,       \* per source id: Inputs created / dispose() calls
    output,                 \* the Output session
    i,                      \* loop index of the segment loop (1-based)
    currentVideoTimestamp, processedDuration, totalDuration,
    firstSampleTimestamp, firstAudioTimestamp,
    videoSamples, audioSamples,                 \* what the iterators still hold
    currentTime,            \* generateSilence's local
    videoOut, audioOut,     \* samples handed to videoSource / audioSource
    segLog,                 \* per finished iteration: cursor before and after
    fault,                  \* the library call that threw, if any
    openSamples,            \* samples created or decoded and not closed
    hung,                   \* an awaited call of stitchVideos never settles
    requested,              \* source ids getInput was called with
    mounted,                \* the MainPlayer instance is in the tree
    effectRuns,             \* times its mount effect has fired
    runs,                   \* calls of stitchVideos
    processingIndex,        \* App: head of the SegmentPlayer queue (0-based)
    resetKey,               \* App: generation of the player keys
    players                 \* SegmentPlayer instances, by generation and position

vars == << segments, sourceFiles, media, pc, processingRef, status, error,
           videoUrl, progress, targetWidth, targetHeight, sampleRate,
           numberOfChannels, probeIdx, inputCache, opened, disposed, output,
           i, currentVideoTimestamp, processedDuration, totalDuration,
           firstSampleTimestamp, firstAudioTimestamp, videoSamples,
           audioSamples, currentTime, videoOut, audioOut, segLog, fault,
           openSamples, hung,
           requested, mounted, effectRuns, runs, processingIndex, resetKey,
           players >>

-----------------------------------------------------------------------------
(* Bounds of the model *)

MaxSegments == 2
MaxEffects == 2
MaxResets == 1

(* Program constants *)

DefaultSampleRate == 48000
DefaultChannels == 2
RateCap == 48000
FallbackWidth == 1920
FallbackHeight == 1080
ChunkDurationMs == 100
Infinity == 1000000000

-----------------------------------------------------------------------------
(* Inputs *)

SourceIds == {1, 2}
\* a source id no entry of sourceFiles carries
UnlistedIds == {9}

\* [start_ms, end_ms) ranges a segment may carry
Ranges == { <<0, 100>>, <<70, 130>>, <<100, 250>>, <<100, 350>>, <<200, 300>>,
            <<300, 400>>, <<150, 100>> }

NoTrack == [present |-> FALSE, decodable |-> FALSE, rate |-> 0, channels |-> 0]
Track(r, c, d) == [present |-> TRUE, decodable |-> d, rate |-> r, channels |-> c]

Medium(dur, w, h, a) ==
    [durationMs |-> dur, hasVideo |-> TRUE, videoDecodable |-> TRUE,
     framePeriod |-> 50, codedWidth |-> w, codedHeight |-> h,
     audio |-> a, chunkPeriod |-> 40]

SegmentRecords(ranges) ==
    { [scene_id |-> 0, source_id |-> s, start_ms |-> r[1], end_ms |-> r[2],
       muted |-> m, duration_sec |-> r[2] - r[1]] :
         s \in SourceIds \cup UnlistedIds, r \in ranges, m \in BOOLEAN }

RECURSIVE SeqsUpTo(_, _)
SeqsUpTo(S, n) ==
    IF n = 0 THEN { <<>> }
    ELSE LET shorter == SeqsUpTo(S, n - 1)
         IN  shorter \cup { Append(q, x) : q \in { t \in shorter : Len(t) = n - 1 }, x \in S }

\* scene ids are the positions in the list
Numbered(q) == [k \in 1..Len(q) |-> [q[k] EXCEPT !.scene_id = k]]

SourceFile(id, w, h) == [source_id |-> id, width |-> w, height |-> h]


-----------------------------------------------------------------------------
(* Pure helpers *)

Min(a, b) == IF a < b THEN a ELSE b
Max(a, b) == IF a > b THEN a ELSE b

SetMin(S) == CHOOSE x \in S : \A y \in S : x <= y
SetMax(S) == CHOOSE x \in S : \A y \in S : x >= y

RECURSIVE SortedSeq(_)
SortedSeq(S) ==
    IF S = {} THEN <<>>
    ELSE LET m == SetMin(S) IN <<m>> \o SortedSeq(S \ {m})

\* Mutant: the first source file stands in for one that is not found
FindSource_OrFirst(id) ==
    LET hits == { k \in 1..Len(sourceFiles) : sourceFiles[k].source_id = id }
    IN  IF hits = {} THEN 1 ELSE SetMin(hits)

\* sourceFiles.find(s => s.source_id === id): the first match, 0 for undefined
FindSource(id) ==
    LET hits == { k \in 1..Len(sourceFiles) : sourceFiles[k].source_id = id }
    IN  IF hits = {} THEN 0 ELSE SetMin(hits)

\* The source id getInput is called with: sourceFile.source_id
FoundId(segment) == sourceFiles[FindSource(segment.source_id)].source_id

\* Timestamps of the samples a track of the given period holds
TrackTimes(period, dur) ==
    { k * period : k \in { j \in 0..(dur \div period) : j * period < dur } }

\* sink.samples(start, end): in presentation order, the sample shown at
\* start (the last one with timestamp <= start) and every sample with
\* start <= timestamp < end
SamplesInRange(period, dur, start, end) ==
    LET T      == TrackTimes(period, dur)
        before == { t \in T : t <= start }
        cover  == IF before = {} THEN {} ELSE { SetMax(before) }
    IN  SortedSeq({ t \in T : t < end /\ (t >= start \/ t \in cover) })

VideoSampleAt(m, t) ==
    [timestamp |-> t, codedWidth |-> m.codedWidth, codedHeight |-> m.codedHeight]

AudioSampleAt(m, t) ==
    [timestamp |-> t, sampleRate |-> m.audio.rate,
     numberOfChannels |-> m.audio.channels,
     numberOfFrames |-> (m.chunkPeriod * m.audio.rate) \div 1000]

\* The inputs <<sampleRate, targetRate, frameCount>> of the model for which
\* frameCount / (sampleRate / targetRate), a whole number in exact
\* arithmetic, is just below that whole number in IEEE-754 double
\* arithmetic, where the ratio is rounded before the division
\* (3840 / (96000 / 44100) = 1763.9999999999998)
RoundsBelow ==
    { <<96000, 11025, 3840>>, <<96000, 22050, 3840>>, <<96000, 44100, 3840>>,
      <<48000, 11025, 1920>>, <<48000, 22050, 1920>>, <<48000, 44100, 1920>> }

\* Math.floor(frameCount / ratio) with ratio = sampleRate / targetRate,
\* as doubles compute it
newFrameCount(frameCount, rate, targetRate) ==
    LET exact == (frameCount * targetRate) \div rate
    IN  IF <<rate, targetRate, frameCount>> \in RoundsBelow THEN exact - 1 ELSE exact

\* The two source frames output frame n is interpolated from
index1(n, rate, targetRate) == (n * rate) \div targetRate

index2(n, rate, targetRate, frameCount) ==
    Min(index1(n, rate, targetRate) + 1, frameCount - 1)

resampleAudio(sample, targetRate) ==
    IF sample.sampleRate = targetRate THEN sample
    ELSE [sample EXCEPT
            !.numberOfFrames = newFrameCount(sample.numberOfFrames,
                                             sample.sampleRate, targetRate),
            !.sampleRate = targetRate]

\* Math.min(0.99, processed / total) as a fraction; den = 0 stands for the
\* values that are no number of [0,1]: NaN (num 0) and -Infinity (num -1)
ProgressValue(processed, total) ==
    IF total = 0
      THEN IF processed = 0 THEN [num |-> 0, den |-> 0]
           ELSE IF processed > 0 THEN [num |-> 99, den |-> 100]
           ELSE [num |-> -1, den |-> 0]
      ELSE LET n == IF total > 0 THEN processed ELSE 0 - processed
               d == IF total > 0 THEN total ELSE 0 - total
           IN  IF 100 * n < 99 * d THEN [num |-> n, den |-> d]
               ELSE [num |-> 99, den |-> 100]

RECURSIVE SumDurations(_, _)
SumDurations(segs, n) ==
    IF n = 0 THEN 0 ELSE SumDurations(segs, n - 1) + segs[n].duration_sec

\* Mutant: the least size over every listed source, referenced or not
TargetDimension_AllSources(field, fallback) ==
    LET found == { sourceFiles[n][field] : n \in 1..Len(sourceFiles) }
    IN  IF found = {} THEN fallback ELSE SetMin(found)

\* Target frame size: the forEach over segments and its fallbacks
TargetDimension(field, fallback) ==
    LET found == { sourceFiles[FindSource(segments[k].source_id)][field] :
                     k \in { j \in 1..Len(segments) : FindSource(segments[j].source_id) # 0 } }
        least == IF found = {} THEN Infinity ELSE Min(Infinity, SetMin(found))
    IN  IF least = Infinity THEN fallback ELSE least

\* Mutant: the native rate, uncapped
CappedRate_Uncapped(rate) == rate

\* track.sampleRate > 48000 ? 48000 : track.sampleRate
CappedRate(rate) == IF rate > RateCap THEN RateCap ELSE rate

-----------------------------------------------------------------------------
(* Initial states *)

\* A SegmentPlayer before its effect has started anything
IdlePlayer ==
    [phase |-> "idle", processingRef |-> FALSE, completedRef |-> FALSE,
     mounted |-> FALSE, conversion |-> "null"]

\* App: useState(0) twice; one SegmentPlayer per generation and position
AppInit ==
    /\ processingIndex = 0
    /\ resetKey = 0
    /\ players = [p \in (0..MaxResets) \X (1..Len(segments)) |-> IdlePlayer]

RunInit ==
    /\ pc = "idle"
    /\ processingRef = FALSE
    /\ status = "Waiting to start..."
    /\ error = "null"
    /\ videoUrl = "null"
    /\ progress = [num |-> 0, den |-> 1]
    /\ targetWidth = 0 /\ targetHeight = 0
    /\ sampleRate = 0 /\ numberOfChannels = 0
    /\ probeIdx = 0
    /\ inputCache = {}
    /\ opened = [s \in SourceIds |-> 0]
    /\ disposed = [s \in SourceIds |-> 0]
    /\ output = [state |-> "none", starts |-> 0, finalizes |-> 0, cancels |-> 0]
    /\ i = 0
    /\ currentVideoTimestamp = 0 /\ processedDuration = 0 /\ totalDuration = 0
    /\ firstSampleTimestamp = -1 /\ firstAudioTimestamp = -1
    /\ videoSamples = <<>> /\ audioSamples = <<>>
    /\ currentTime = 0
    /\ videoOut = <<>> /\ audioOut = <<>>
    /\ segLog = <<>>
    /\ fault = "none"
    /\ openSamples = 0
    /\ hung = FALSE
    /\ requested = {}
    /\ mounted = FALSE /\ effectRuns = 0 /\ runs = 0
    /\ AppInit

\* Two sources of fixed content, any list of segments over them
Init ==
    /\ \E q \in SeqsUpTo(SegmentRecords(Ranges), MaxSegments) : segments = Numbered(q)
    /\ sourceFiles = << SourceFile(1, 1920, 1080), SourceFile(2, 1280, 720) >>
    /\ media = [s \in SourceIds |->
                  IF s = 1 THEN Medium(200, 1920, 1080, Track(44100, 2, TRUE))
                           ELSE Medium(300, 1280, 720, Track(96000, 1, TRUE))]
    /\ RunInit

\* Frame sizes and audio tracks of the two sources vary, the ranges do not
ProfileSizes == [s \in SourceIds |->
                   IF s = 1 THEN { <<1920, 1080>>, <<640, 720>> }
                            ELSE { <<1280, 720>>, <<1280, 480>> }]

ProfileTracks == [s \in SourceIds |->
                    IF s = 1 THEN { NoTrack, Track(44100, 2, TRUE), Track(22050, 1, FALSE) }
                             ELSE { NoTrack, Track(96000, 1, TRUE) }]

InitProfile ==
    /\ \E q \in SeqsUpTo(SegmentRecords({ <<0, 100>> }), MaxSegments) :
          segments = Numbered(q)
    /\ \E size \in [SourceIds -> UNION { ProfileSizes[s] : s \in SourceIds }],
          track \in [SourceIds -> UNION { ProfileTracks[s] : s \in SourceIds }] :
          /\ \A s \in SourceIds : size[s] \in ProfileSizes[s] /\ track[s] \in ProfileTracks[s]
          /\ sourceFiles = << SourceFile(1, size[1][1], size[1][2]),
                              SourceFile(2, size[2][1], size[2][2]) >>
          /\ media = [s \in SourceIds |->
                        Medium(IF s = 1 THEN 200 ELSE 300, size[s][1], size[s][2], track[s])]
    /\ RunInit

\* Requested durations and target sample rates vary: the first source's
\* track runs at any of SilenceRates, a segment lasts 0, 250 or 300 ms
SilenceRates == { 11025, 44100, 48000 }

SilenceRanges == { <<0, 0>>, <<0, 250>>, <<0, 300>> }

InitSilence ==
    /\ \E q \in SeqsUpTo(SegmentRecords(SilenceRanges), MaxSegments) :
          segments = Numbered(q)
    /\ sourceFiles = << SourceFile(1, 1920, 1080), SourceFile(2, 1280, 720) >>
    /\ \E rate \in SilenceRates :
          media = [s \in SourceIds |->
                     IF s = 1 THEN Medium(200, 1920, 1080, Track(rate, 2, TRUE))
                              ELSE Medium(300, 1280, 720, Track(96000, 1, TRUE))]
    /\ RunInit

\* The tracks of the two sources may be absent or undecodable
TrackStates == { <<TRUE, TRUE>>, <<TRUE, FALSE>>, <<FALSE, FALSE>> }

InitTracks ==
    /\ \E q \in SeqsUpTo(SegmentRecords({ <<0, 100>> }), MaxSegments) :
          segments = Numbered(q)
    /\ sourceFiles = << SourceFile(1, 1920, 1080), SourceFile(2, 1280, 720) >>
    /\ \E video \in [SourceIds -> TrackStates], audio \in [SourceIds -> TrackStates] :
          media = [s \in SourceIds |->
                     [Medium(IF s = 1 THEN 200 ELSE 300,
                             IF s = 1 THEN 1920 ELSE 1280,
                             IF s = 1 THEN 1080 ELSE 720,
                             IF audio[s][1]
                               THEN Track(IF s = 1 THEN 44100 ELSE 96000,
                                          IF s = 1 THEN 2 ELSE 1, audio[s][2])
                               ELSE NoTrack)
                        EXCEPT !.hasVideo = video[s][1],
                               !.videoDecodable = video[s][2]]]
    /\ RunInit

\* The fixed sources, segments of one range
InitLifecycle ==
    /\ \E q \in SeqsUpTo(SegmentRecords({ <<0, 100>> }), MaxSegments) :
          segments = Numbered(q)
    /\ sourceFiles = << SourceFile(1, 1920, 1080), SourceFile(2, 1280, 720) >>
    /\ media = [s \in SourceIds |->
                  IF s = 1 THEN Medium(200, 1920, 1080, Track(44100, 2, TRUE))
                           ELSE Medium(300, 1280, 720, Track(96000, 1, TRUE))]
    /\ RunInit

-----------------------------------------------------------------------------
(* Variable groups *)

inputVars   == << segments, sourceFiles, media >>
uiVars      == << status, error, videoUrl, progress >>
profileVars == << targetWidth, targetHeight, sampleRate, numberOfChannels >>
handleVars  == << inputCache, opened, disposed, requested >>
faultVars   == << fault, openSamples >>
lifeVars    == << mounted, effectRuns, runs >>
appVars     == << processingIndex, resetKey, players >>
loopVars    == << i, currentVideoTimestamp, processedDuration, totalDuration >>
iterVars    == << firstSampleTimestamp, firstAudioTimestamp, videoSamples,
                  audioSamples, currentTime >>
sinkVars    == << videoOut, audioOut >>

-----------------------------------------------------------------------------
(* getInput and the catch block *)

\* stitchVideos stands at p and the await it stands behind has settled
At(p) == pc = p /\ ~hung

\* Mutant: a new Input at every call
GetInput_NoCache(id) ==
    /\ inputCache' = inputCache \cup {id}
    /\ opened' = [opened EXCEPT ![id] = @ + 1]
    /\ requested' = requested \cup {id}
    /\ UNCHANGED disposed

\* getInput(sourceId, url): a new Input only when the cache has none
GetInput(id) ==
    /\ inputCache' = inputCache \cup {id}
    /\ opened' = IF id \in inputCache THEN opened
                 ELSE [opened EXCEPT ![id] = @ + 1]
    /\ requested' = requested \cup {id}
    /\ UNCHANGED disposed

\* catch (err): setError(message), setStatus('Error'); nothing else is done
Catch(message) ==
    /\ error' = message
    /\ status' = "Error"
    /\ pc' = "done"
    /\ UNCHANGED << videoUrl, progress >>

\* An awaited library call rejects while `held` samples are in hand: the
\* rejection reaches the catch block past the close() calls that follow the
\* await
Rejects(call, held) ==
    /\ fault' = call
    /\ openSamples' = openSamples + held
    /\ Catch("library error")

-----------------------------------------------------------------------------
(* The run, up to output.start() *)

\* Mutant: the effect does not look at processingRef
AlreadyProcessing_Unguarded == FALSE

\* if (processingRef.current) return
AlreadyProcessing == processingRef

\* Body of the mount effect: the guard, processingRef.current = true, and
\* the call of stitchVideos
EffectBody ==
    IF AlreadyProcessing
      THEN UNCHANGED << pc, processingRef, runs, hung >>
      ELSE /\ processingRef' = TRUE
           /\ runs' = runs + 1
           /\ pc' = "setup"
           /\ hung' = FALSE

\* The instance is mounted and its effect fires for the first time
MountEffect ==
    /\ ~mounted
    /\ effectRuns = 0
    /\ mounted' = TRUE
    /\ effectRuns' = 1
    /\ EffectBody
    /\ UNCHANGED << inputVars, appVars, uiVars, profileVars, probeIdx, handleVars,
                    output, loopVars, iterVars, sinkVars, segLog, faultVars >>

\* The effect of the mounted instance fires again (a development remount):
\* the cleanup finds the videoUrl of the first render, null, and revokes
\* nothing
EffectRefires ==
    /\ mounted
    /\ effectRuns < MaxEffects
    /\ effectRuns' = effectRuns + 1
    /\ EffectBody
    /\ UNCHANGED << inputVars, mounted, appVars, uiVars, profileVars, probeIdx,
                    handleVars, output, loopVars, iterVars, sinkVars, segLog, faultVars >>

\* The instance leaves the tree (Execute or a project change gives MainPlayer
\* a new key): the cleanup revokes nothing, stitchVideos is not told
Unmount ==
    /\ mounted
    /\ mounted' = FALSE
    /\ UNCHANGED << inputVars, effectRuns, runs, hung, appVars, pc, processingRef,
                    uiVars, profileVars, probeIdx, handleVars, output, loopVars,
                    iterVars, sinkVars, segLog, faultVars >>

\* Output and encoders are created, the target frame size is computed
Setup ==
    /\ At("setup")
    /\ error' = "null"
    /\ status' = "Initializing Stitcher..."
    /\ output' = [output EXCEPT !.state = "created"]
    /\ sampleRate' = DefaultSampleRate
    /\ numberOfChannels' = DefaultChannels
    /\ targetWidth' = TargetDimension("width", FallbackWidth)
    /\ targetHeight' = TargetDimension("height", FallbackHeight)
    /\ probeIdx' = 1
    /\ pc' = "probe"
    /\ UNCHANGED << inputVars, lifeVars, hung, appVars, processingRef,
                    videoUrl, progress, handleVars, loopVars, iterVars,
                    sinkVars, segLog, faultVars >>

\* Whether the probe loop asks this segment's source for its audio track
Probed(k) ==
    /\ ~segments[k].muted
    /\ FindSource(segments[k].source_id) # 0

\* One iteration of the probe loop
ProbeSegment ==
    /\ At("probe")
    /\ probeIdx <= Len(segments)
    /\ LET segment == segments[probeIdx]
           track   == media[FoundId(segment)].audio
       IN  IF Probed(probeIdx)
             THEN /\ GetInput(FoundId(segment))
                  /\ IF track.present
                       THEN /\ sampleRate' = CappedRate(track.rate)
                            /\ numberOfChannels' = track.channels
                            /\ pc' = "start"
                            /\ UNCHANGED probeIdx
                       ELSE /\ probeIdx' = probeIdx + 1
                            /\ UNCHANGED << sampleRate, numberOfChannels, pc >>
             ELSE /\ probeIdx' = probeIdx + 1
                  /\ UNCHANGED << sampleRate, numberOfChannels, pc, handleVars >>
    /\ UNCHANGED << inputVars, lifeVars, hung, appVars, processingRef, uiVars,
                    targetWidth, targetHeight, output, loopVars, iterVars,
                    sinkVars, segLog, faultVars >>

\* The probe loop ends without a break
ProbeExhausted ==
    /\ At("probe")
    /\ probeIdx > Len(segments)
    /\ pc' = "start"
    /\ UNCHANGED << inputVars, lifeVars, hung, appVars, processingRef, uiVars,
                    profileVars, probeIdx, handleVars, output, loopVars,
                    iterVars, sinkVars, segLog, faultVars >>

\* getPrimaryAudioTrack() rejects
ProbeRejects ==
    /\ At("probe")
    /\ probeIdx <= Len(segments)
    /\ Probed(probeIdx)
    /\ GetInput(FoundId(segments[probeIdx]))
    /\ Rejects("getPrimaryAudioTrack", 0)
    /\ UNCHANGED << inputVars, lifeVars, hung, appVars, processingRef,
                    profileVars, probeIdx, output, loopVars, iterVars,
                    sinkVars, segLog >>

\* Mutant: the session is not started
Started_Skipped(o) == o

\* await output.start()
Started(o) == [o EXCEPT !.state = "started", !.starts = @ + 1]

\* The tracks are added, output.start() resolves, the loop variables are set
OutputStart ==
    /\ At("start")
    /\ output' = Started(output)
    /\ currentVideoTimestamp' = 0
    /\ totalDuration' = SumDurations(segments, Len(segments))
    /\ processedDuration' = 0
    /\ i' = 1
    /\ pc' = "segment"
    /\ UNCHANGED << inputVars, lifeVars, hung, appVars, processingRef, uiVars,
                    profileVars, probeIdx, handleVars, iterVars, sinkVars,
                    segLog, faultVars >>

\* output.start() rejects
StartRejects ==
    /\ At("start")
    /\ output' = [output EXCEPT !.starts = @ + 1]
    /\ Rejects("output.start", 0)
    /\ UNCHANGED << inputVars, lifeVars, hung, appVars, processingRef,
                    profileVars, probeIdx, handleVars, loopVars, iterVars,
                    sinkVars, segLog >>

-----------------------------------------------------------------------------
(* The segment loop *)

startSec(segment) == segment.start_ms
endSec(segment) == segment.end_ms

\* const duration = endSec - startSec
SegmentDuration(segment) == endSec(segment) - startSec(segment)

\* if (startSec > sourceDuration) ... continue
SkipsSegment(segment, sourceDuration) == startSec(segment) > sourceDuration

LogEntry(skipped, after) ==
    [seg |-> i, skipped |-> skipped, before |-> currentVideoTimestamp, after |-> after]

\* Mutant: the video track is taken to be there and decodable
VideoUsable_Always(m) == TRUE

\* videoTrack && await videoTrack.canDecode()
VideoUsable(m) == m.hasVideo /\ m.videoDecodable

\* audioTrack && await audioTrack.canDecode()
AudioUsable(m) == m.audio.present /\ m.audio.decodable

\* Head of an iteration: the source is resolved, its duration compared with
\* the segment, the video iterator created
SegmentBegin ==
    /\ At("segment")
    /\ i <= Len(segments)
    /\ LET segment == segments[i]
           m       == media[FoundId(segment)]
       IN  IF FindSource(segment.source_id) = 0
             THEN /\ Catch("Source not found for segment")
                  /\ UNCHANGED << handleVars, i, iterVars, segLog >>
             ELSE /\ status' = "Processing Segment"
                  /\ GetInput(FoundId(segment))
                  /\ UNCHANGED << error, videoUrl, progress >>
                  /\ IF SkipsSegment(segment, m.durationMs)
                       THEN /\ i' = i + 1
                            /\ segLog' = Append(segLog, LogEntry(TRUE, currentVideoTimestamp))
                            /\ UNCHANGED << pc, iterVars >>
                       ELSE /\ videoSamples' =
                                 IF VideoUsable(m)
                                   THEN LET ts == SamplesInRange(m.framePeriod, m.durationMs,
                                                                 startSec(segment), endSec(segment))
                                        IN  [k \in 1..Len(ts) |-> VideoSampleAt(m, ts[k])]
                                   ELSE <<>>
                            /\ firstSampleTimestamp' = -1
                            /\ pc' = "video"
                            /\ UNCHANGED << i, segLog, firstAudioTimestamp,
                                            audioSamples, currentTime >>
    /\ UNCHANGED << inputVars, lifeVars, hung, appVars, processingRef,
                    profileVars, probeIdx, output, currentVideoTimestamp,
                    processedDuration, totalDuration, sinkVars, faultVars >>

\* computeDuration(), getPrimaryVideoTrack() or canDecode() rejects
SegmentRejects ==
    /\ At("segment")
    /\ i <= Len(segments)
    /\ FindSource(segments[i].source_id) # 0
    /\ GetInput(FoundId(segments[i]))
    /\ Rejects("computeDuration", 0)
    /\ UNCHANGED << inputVars, lifeVars, hung, appVars, processingRef,
                    profileVars, probeIdx, output, loopVars, iterVars,
                    sinkVars, segLog >>

\* Mutant: the crop starts at the whole difference, not at half of it
CropOrigin_NotCentred(coded, target) == 2 * Max(0, coded - target)

\* Math.max(0, (coded - target) / 2), counted in half pixels
CropOrigin(coded, target) == Max(0, coded - target)

\* sample.codedWidth !== targetWidth || sample.codedHeight !== targetHeight
NeedsCrop(sample) ==
    sample.codedWidth # targetWidth \/ sample.codedHeight # targetHeight

\* the range filter of the video loop lets the sample through
InVideoRange(sample, segment) ==
    ~(sample.timestamp >= endSec(segment) \/ sample.timestamp < startSec(segment))

\* One decoded video sample: range filter, re-timing, crop, videoSource.add
VideoSample ==
    /\ At("video")
    /\ videoSamples # <<>>
    /\ LET segment == segments[i]
           sample  == Head(videoSamples)
           first   == IF firstSampleTimestamp = -1 THEN sample.timestamp
                      ELSE firstSampleTimestamp
           newTimestamp == currentVideoTimestamp + (sample.timestamp - first)
           cropped == NeedsCrop(sample)
       IN  /\ videoSamples' = Tail(videoSamples)
           /\ IF ~InVideoRange(sample, segment)
                THEN UNCHANGED << firstSampleTimestamp, videoOut >>
                ELSE /\ firstSampleTimestamp' = first
                     /\ videoOut' = Append(videoOut,
                           [seg |-> i, timestamp |-> newTimestamp,
                            base |-> currentVideoTimestamp,
                            width  |-> IF cropped THEN targetWidth ELSE sample.codedWidth,
                            height |-> IF cropped THEN targetHeight ELSE sample.codedHeight,
                            cropped |-> cropped,
                            codedWidth |-> sample.codedWidth,
                            codedHeight |-> sample.codedHeight,
                            sx |-> IF cropped THEN CropOrigin(sample.codedWidth, targetWidth)
                                   ELSE 0,
                            sy |-> IF cropped THEN CropOrigin(sample.codedHeight, targetHeight)
                                   ELSE 0])
    /\ UNCHANGED << inputVars, lifeVars, hung, appVars, pc, processingRef,
                    uiVars, profileVars, probeIdx, handleVars, output,
                    loopVars, firstAudioTimestamp, audioSamples, currentTime,
                    audioOut, segLog, faultVars >>

\* createImageBitmap() or videoSource.add() rejects with the sample and its
\* derivative in hand, or the iterator does after a discarded sample
VideoRejects ==
    /\ At("video")
    /\ videoSamples # <<>>
    /\ LET sample == Head(videoSamples)
       IN  Rejects("videoSource.add",
                   IF ~InVideoRange(sample, segments[i]) THEN 0
                   ELSE IF NeedsCrop(sample) THEN 2 ELSE 1)
    /\ UNCHANGED << inputVars, lifeVars, hung, appVars, processingRef,
                    profileVars, probeIdx, handleVars, output, loopVars,
                    iterVars, sinkVars, segLog >>

\* The video track is drained: generateSilence is entered for a muted
\* segment, the audio iterator is created for an unmuted one
AudioBegin ==
    /\ At("video")
    /\ videoSamples = <<>>
    /\ LET segment == segments[i]
           m       == media[FoundId(segment)]
       IN  IF segment.muted
             THEN /\ currentTime' = currentVideoTimestamp
                  /\ pc' = "silence"
                  /\ UNCHANGED << audioSamples, firstAudioTimestamp >>
             ELSE /\ audioSamples' =
                       IF AudioUsable(m)
                         THEN LET ts == SamplesInRange(m.chunkPeriod, m.durationMs,
                                                       startSec(segment), endSec(segment))
                              IN  [k \in 1..Len(ts) |-> AudioSampleAt(m, ts[k])]
                         ELSE <<>>
                  /\ firstAudioTimestamp' = -1
                  /\ pc' = "audio"
                  /\ UNCHANGED currentTime
    /\ UNCHANGED << inputVars, lifeVars, hung, appVars, processingRef, uiVars,
                    profileVars, probeIdx, handleVars, output, loopVars,
                    firstSampleTimestamp, videoSamples, sinkVars, segLog,
                    faultVars >>

-----------------------------------------------------------------------------
(* generateSilence *)

\* const endTime = startTime + duration
SilenceEndTime == currentVideoTimestamp + SegmentDuration(segments[i])

SilenceNextTime == Min(currentTime + ChunkDurationMs, SilenceEndTime)

\* Math.floor(currentChunkDuration * sampleRate)
SilenceFrameCount == ((SilenceNextTime - currentTime) * sampleRate) \div 1000

\* while (currentTime < endTime) ... if (frameCount === 0) break
SilencePending == currentTime < SilenceEndTime /\ SilenceFrameCount # 0

\* One iteration of generateSilence's loop
SilenceChunk ==
    /\ At("silence")
    /\ SilencePending
    /\ audioOut' = Append(audioOut,
          [seg |-> i, timestamp |-> currentTime, base |-> currentVideoTimestamp,
           sampleRate |-> sampleRate, numberOfChannels |-> numberOfChannels,
           numberOfFrames |-> SilenceFrameCount, silent |-> TRUE])
    /\ currentTime' = SilenceNextTime
    /\ UNCHANGED << inputVars, lifeVars, hung, appVars, pc, processingRef,
                    uiVars, profileVars, probeIdx, handleVars, output,
                    loopVars, firstSampleTimestamp, firstAudioTimestamp,
                    videoSamples, audioSamples, videoOut, segLog, faultVars >>

\* audioSource.add() of a silence chunk rejects
SilenceRejects ==
    /\ At("silence")
    /\ SilencePending
    /\ Rejects("audioSource.add", 1)
    /\ UNCHANGED << inputVars, lifeVars, hung, appVars, processingRef,
                    profileVars, probeIdx, handleVars, output, loopVars,
                    iterVars, sinkVars, segLog >>

-----------------------------------------------------------------------------
(* Decoded audio *)

\* One decoded audio sample: end filter, resampling, re-timing, audioSource.add
AudioSample ==
    /\ At("audio")
    /\ audioSamples # <<>>
    /\ LET segment == segments[i]
           sample  == Head(audioSamples)
           sampleToProcess == IF sample.sampleRate # sampleRate
                                THEN resampleAudio(sample, sampleRate) ELSE sample
           first   == IF firstAudioTimestamp = -1 THEN sampleToProcess.timestamp
                      ELSE firstAudioTimestamp
           newTimestamp == currentVideoTimestamp + (sampleToProcess.timestamp - first)
       IN  /\ audioSamples' = Tail(audioSamples)
           /\ IF sample.timestamp >= endSec(segment)
                THEN UNCHANGED << firstAudioTimestamp, audioOut >>
                ELSE /\ firstAudioTimestamp' = first
                     /\ audioOut' = Append(audioOut,
                           [seg |-> i, timestamp |-> newTimestamp,
                            base |-> currentVideoTimestamp,
                            sampleRate |-> sampleToProcess.sampleRate,
                            numberOfChannels |-> sampleToProcess.numberOfChannels,
                            numberOfFrames |-> sampleToProcess.numberOfFrames,
                            fromRate |-> sample.sampleRate,
                            fromChannels |-> sample.numberOfChannels,
                            fromFrames |-> sample.numberOfFrames,
                            silent |-> FALSE])
    /\ UNCHANGED << inputVars, lifeVars, hung, appVars, pc, processingRef,
                    uiVars, profileVars, probeIdx, handleVars, output,
                    loopVars, firstSampleTimestamp, videoSamples, currentTime,
                    videoOut, segLog, faultVars >>

\* audioSource.add() rejects with the sample and its resampled copy in
\* hand, or the iterator does after a discarded sample
AudioRejects ==
    /\ At("audio")
    /\ audioSamples # <<>>
    /\ LET sample == Head(audioSamples)
       IN  Rejects("audioSource.add",
                   IF sample.timestamp >= endSec(segments[i]) THEN 0
                   ELSE IF sample.sampleRate # sampleRate THEN 2 ELSE 1)
    /\ UNCHANGED << inputVars, lifeVars, hung, appVars, processingRef,
                    profileVars, probeIdx, handleVars, output, loopVars,
                    iterVars, sinkVars, segLog >>

-----------------------------------------------------------------------------
(* End of an iteration, end of the run *)

\* Mutant: the end of the iteration does not wait for the audio
TracksDrained_Early == At("silence") \/ At("audio")

\* generateSilence has returned, or the for await over the audio iterator
\* has ended
TracksDrained ==
    \/ At("silence") /\ ~SilencePending
    \/ At("audio") /\ audioSamples = <<>>

\* currentVideoTimestamp += duration; processedDuration += duration; setProgress
SegmentEnd ==
    /\ TracksDrained
    /\ LET duration == SegmentDuration(segments[i])
       IN  /\ currentVideoTimestamp' = currentVideoTimestamp + duration
           /\ processedDuration' = processedDuration + duration
           /\ progress' = ProgressValue(processedDuration + duration, totalDuration)
           /\ segLog' = Append(segLog, LogEntry(FALSE, currentVideoTimestamp + duration))
    /\ i' = i + 1
    /\ pc' = "segment"
    /\ UNCHANGED << inputVars, lifeVars, hung, appVars, processingRef, status,
                    error, videoUrl, profileVars, probeIdx, handleVars,
                    output, totalDuration, iterVars, sinkVars, faultVars >>

\* Mutant: the disposal does not wait for the end of the loop
LoopDone_Early == TRUE

\* for (let i = 0; i < segments.length; i++) has run out
LoopDone == i > Len(segments)

\* After the loop: every cached input is disposed, the cache cleared
DisposeInputs ==
    /\ At("segment")
    /\ LoopDone
    /\ disposed' = [s \in SourceIds |-> IF s \in inputCache THEN disposed[s] + 1
                                        ELSE disposed[s]]
    /\ inputCache' = {}
    /\ status' = "Finalizing..."
    /\ pc' = "finalize"
    /\ UNCHANGED << inputVars, lifeVars, hung, appVars, processingRef, error,
                    videoUrl, progress, profileVars, probeIdx, opened,
                    requested, output, loopVars, iterVars, sinkVars, segLog,
                    faultVars >>

\* output.finalize() resolves; the buffer is published, or found missing
Finalize ==
    /\ At("finalize")
    /\ output' = [output EXCEPT !.state = "finalized", !.finalizes = @ + 1]
    /\ \E buffer \in BOOLEAN :
         IF buffer
           THEN /\ videoUrl' = "blob"
                /\ status' = "Ready"
                /\ progress' = [num |-> 1, den |-> 1]
                /\ pc' = "done"
                /\ UNCHANGED error
           ELSE Catch("No output buffer created")
    /\ UNCHANGED << inputVars, lifeVars, hung, appVars, processingRef,
                    profileVars, probeIdx, handleVars, loopVars, iterVars,
                    sinkVars, segLog, faultVars >>

\* output.finalize() rejects
FinalizeRejects ==
    /\ At("finalize")
    /\ output' = [output EXCEPT !.finalizes = @ + 1]
    /\ Rejects("output.finalize", 0)
    /\ UNCHANGED << inputVars, lifeVars, hung, appVars, processingRef,
                    profileVars, probeIdx, handleVars, loopVars, iterVars,
                    sinkVars, segLog >>

\* An awaited library call is pending
Awaiting ==
    \/ At("start")
    \/ At("video") /\ videoSamples # <<>>
    \/ At("silence") /\ SilencePending
    \/ At("audio") /\ audioSamples # <<>>
    \/ At("finalize")

\* The pending call never settles: no continuation of stitchVideos runs again
AwaitHangs ==
    /\ \/ Awaiting /\ UNCHANGED handleVars
       \/ /\ At("probe")
          /\ probeIdx <= Len(segments)
          /\ Probed(probeIdx)
          /\ GetInput(FoundId(segments[probeIdx]))
       \/ /\ At("segment")
          /\ i <= Len(segments)
          /\ FindSource(segments[i].source_id) # 0
          /\ GetInput(FoundId(segments[i]))
    /\ hung' = TRUE
    /\ UNCHANGED << inputVars, lifeVars, appVars, pc, processingRef, uiVars,
                    profileVars, probeIdx, output, loopVars, iterVars,
                    sinkVars, segLog, faultVars >>

-----------------------------------------------------------------------------

Next ==
    \/ MountEffect
    \/ Setup
    \/ ProbeSegment
    \/ ProbeExhausted
    \/ ProbeRejects
    \/ OutputStart
    \/ StartRejects
    \/ SegmentBegin
    \/ SegmentRejects
    \/ VideoSample
    \/ VideoRejects
    \/ AudioBegin
    \/ SilenceChunk
    \/ SilenceRejects
    \/ AudioSample
    \/ AudioRejects
    \/ SegmentEnd
    \/ DisposeInputs
    \/ Finalize
    \/ FinalizeRejects
    \/ AwaitHangs

-----------------------------------------------------------------------------
(* App and its queue of SegmentPlayers *)

mainVars == << inputVars, pc, processingRef, uiVars, profileVars, probeIdx,
               handleVars, output, loopVars, iterVars, sinkVars, segLog,
               faultVars, hung, lifeVars >>

\* segments.map: a SegmentPlayer is rendered only for a listed source
HasPlayer(k) == FindSource(segments[k].source_id) # 0

\* canProcess={index === processingIndex}
canProcess(k) == k - 1 = processingIndex

\* Cleanup of a SegmentPlayer effect that got past its guard: mounted =
\* false, and cancel() on the conversion if Conversion.init has returned one
Cleanup(player) ==
    IF player.mounted
      THEN [player EXCEPT !.mounted = FALSE,
                          !.conversion = IF @ = "running" THEN "cancelled" ELSE @]
      ELSE player

\* The effect of a rendered SegmentPlayer gets past both guards and
\* processSegment runs up to await Conversion.init
ProcessSegment ==
    \E g \in 0..MaxResets, k \in 1..Len(segments) :
    /\ g = resetKey
    /\ HasPlayer(k)
    /\ canProcess(k)
    /\ ~players[<<g, k>>].completedRef
    /\ ~players[<<g, k>>].processingRef
    /\ players[<<g, k>>].phase = "idle"
    /\ players' = [players EXCEPT ![<<g, k>>] =
                      [@ EXCEPT !.mounted = TRUE, !.processingRef = TRUE, !.phase = "init"]]
    /\ UNCHANGED << mainVars, processingIndex, resetKey >>

\* catch or the end of try: completedRef, processingRef, setTimeout(onComplete, 0)
Completed(player) ==
    [player EXCEPT !.completedRef = TRUE, !.processingRef = FALSE, !.phase = "timer"]

\* Conversion.init settles: a valid conversion goes on to execute(), an
\* invalid one or a rejection goes to the catch block
ConversionInit ==
    \E g \in 0..MaxResets, k \in 1..Len(segments) :
    /\ players[<<g, k>>].phase = "init"
    /\ \E valid \in BOOLEAN :
         players' = [players EXCEPT ![<<g, k>>] =
                       IF valid THEN [@ EXCEPT !.conversion = "running", !.phase = "exec"]
                       ELSE Completed(@)]
    /\ UNCHANGED << mainVars, processingIndex, resetKey >>

\* The race of execute() and the 60 s timer settles, either way
ConversionSettles ==
    \E g \in 0..MaxResets, k \in 1..Len(segments) :
    /\ players[<<g, k>>].phase = "exec"
    /\ players' = [players EXCEPT ![<<g, k>>] =
                      Completed([@ EXCEPT !.conversion =
                                    IF @ = "running" THEN "finished" ELSE @])]
    /\ UNCHANGED << mainVars, processingIndex, resetKey >>

\* The timer of setTimeout(onComplete, 0) fires: handleSegmentComplete, and
\* in the render that follows the player that could process no longer can
CompletionTimer ==
    \E g \in 0..MaxResets, k \in 1..Len(segments) :
    /\ players[<<g, k>>].phase = "timer"
    /\ processingIndex' = processingIndex + 1
    /\ players' = [p \in DOMAIN players |->
                     LET player == IF p = <<g, k>> THEN [players[p] EXCEPT !.phase = "done"]
                                   ELSE players[p]
                     IN  IF p[1] = resetKey /\ canProcess(p[2]) THEN Cleanup(player)
                         ELSE player]
    /\ UNCHANGED << mainVars, resetKey >>

\* handleExecute / handleProjectChange: every player gets a new key, the
\* old ones are unmounted, the queue restarts at 0
Execute ==
    /\ resetKey < MaxResets
    /\ resetKey' = resetKey + 1
    /\ processingIndex' = 0
    /\ players' = [p \in DOMAIN players |->
                     IF p[1] = resetKey THEN Cleanup(players[p]) ELSE players[p]]
    /\ UNCHANGED mainVars

NextQueue ==
    \/ ProcessSegment
    \/ ConversionInit
    \/ ConversionSettles
    \/ CompletionTimer
    \/ Execute

\* The run together with the life of the instance that started it
NextLifecycle ==
    \/ Next
    \/ EffectRefires
    \/ Unmount

Spec == Init /\ [][Next]_vars

SpecProfile == InitProfile /\ [][Next]_vars

SpecSilence == InitSilence /\ [][Next]_vars

SpecTracks == InitTracks /\ [][Next]_vars

SpecLifecycle == InitLifecycle /\ [][NextLifecycle]_vars

\* The queue of SegmentPlayers on its own: it shares no state with the run
SpecQueue == InitLifecycle /\ [][NextQueue]_vars

-----------------------------------------------------------------------------
(* Vocabulary of the properties *)

SourceDuration(segment) == media[segment.source_id].durationMs

ClampedDuration(segment) ==
    Min(endSec(segment), SourceDuration(segment)) - startSec(segment)

RECURSIVE ClampedSum(_)
ClampedSum(n) ==
    IF n = 0 THEN 0
    ELSE ClampedSum(n - 1)
           + (IF segLog[n].skipped THEN 0 ELSE ClampedDuration(segments[segLog[n].seg]))

LoopFinished == pc \in {"segment", "finalize", "done"} /\ i > Len(segments)

Terminal == pc = "done"
Failed == Terminal /\ status = "Error"
Complete == Terminal /\ status = "Ready"

\* some segment of a listed source starts exactly where the source ends
StartsAtSourceEnd ==
    \E k \in 1..Len(segments) :
       /\ FindSource(segments[k].source_id) # 0
       /\ startSec(segments[k]) = SourceDuration(segments[k])

\* every segment runs forward in its source
ForwardRanges == \A k \in 1..Len(segments) : segments[k].start_ms < segments[k].end_ms

SamplesOf(out, k) == { n \in 1..Len(out) : out[n].seg = k }

NonDecreasing(out) ==
    \A n \in 1..(Len(out) - 1) : out[n].timestamp <= out[n + 1].timestamp

-----------------------------------------------------------------------------
(* C1: after the last segment the timeline cursor equals the sum, over the *)
(* segments that were not skipped, of min(end, sourceDuration) - start.    *)
(* Stated for lists in which no segment starts exactly at the end of its   *)
(* source, and for the segments the run did not skip.                      *)
C1_CursorIsClampedSum ==
    (LoopFinished /\ ~StartsAtSourceEnd) =>
       currentVideoTimestamp = ClampedSum(Len(segLog))

(* C2: a segment with start >= sourceDuration (equality included) hands    *)
(* nothing to the Sink and leaves the cursor where it was, and the run     *)
(* goes on to the next segment.                                            *)
C2_OutOfBoundsContributesNothing ==
    \A n \in 1..Len(segLog) :
       LET segment == segments[segLog[n].seg]
       IN  startSec(segment) >= SourceDuration(segment) =>
             /\ segLog[n].after = segLog[n].before
             /\ SamplesOf(videoOut, segLog[n].seg) = {}
             /\ SamplesOf(audioOut, segLog[n].seg) = {}

(* C3: a segment with end > sourceDuration is processed as one with        *)
(* end = sourceDuration: the cursor advances by sourceDuration - start and *)
(* the silence of a muted segment ends where the clamped segment ends.     *)
C3_TruncatedAsClamped ==
    \A n \in 1..Len(segLog) :
       LET segment == segments[segLog[n].seg]
       IN  (/\ startSec(segment) < SourceDuration(segment)
            /\ endSec(segment) > SourceDuration(segment)) =>
             /\ segLog[n].after - segLog[n].before = ClampedDuration(segment)
             /\ \A a \in SamplesOf(audioOut, segLog[n].seg) :
                  audioOut[a].silent =>
                    audioOut[a].timestamp < segLog[n].before + ClampedDuration(segment)

(* C4: on each track the output timestamps handed to the Sink over the run *)
(* are non-decreasing (stated here for lists whose segments all have       *)
(* start < end).                                                           *)
C4_TimestampsNonDecreasing ==
    ForwardRanges => NonDecreasing(videoOut) /\ NonDecreasing(audioOut)

(* C5: every sample handed to the Sink for a segment has an output         *)
(* timestamp in [cursor at segment start, cursor at segment start +        *)
(* segment duration).                                                      *)
C5_TimestampsWithinSegment ==
    ForwardRanges =>
      \A out \in {videoOut, audioOut} : \A n \in 1..Len(out) :
         /\ out[n].base <= out[n].timestamp
         /\ out[n].timestamp < out[n].base + SegmentDuration(segments[out[n].seg])

(* C6: when the run ends in Failed, every source handle opened so far has  *)
(* been disposed exactly once.  Stated for the runs in which no library   *)
(* call rejects: the failures left are the ones stitchVideos raises.       *)
C6_FailedRunDisposesHandles ==
    (Failed /\ fault = "none") => \A s \in SourceIds : disposed[s] = opened[s]

(* C7: once the encoder session is started it is closed exactly once by    *)
(* the time the run is Complete or Failed, and not before every segment    *)
(* has been processed or skipped.  Stated for the runs in which no        *)
(* library call rejects.                                                   *)
C7_SessionClosedOnce ==
    /\ (Terminal /\ fault = "none" /\ output.state # "created") =>
          output.finalizes + output.cancels = 1
    /\ output.finalizes + output.cancels > 0 => i > Len(segments)

HasUnlistedSource ==
    \E k \in 1..Len(segments) : \A n \in 1..Len(sourceFiles) :
       sourceFiles[n].source_id # segments[k].source_id

(* C8: a segment of an unlisted source makes the run end in Failed with no *)
(* output buffer: videoUrl stays null and progress never reaches 1; the    *)
(* error is the source-not-found one whenever no library call rejected     *)
(* before the loop got to that segment.                                    *)
C8_UnlistedSourceFails ==
    HasUnlistedSource =>
       /\ videoUrl = "null"
       /\ progress # [num |-> 1, den |-> 1]
       /\ Terminal => /\ status = "Error"
                      /\ fault = "none" => error = "Source not found for segment"

\* the unlisted segment is the second one, met after the first was processed
C8_Witness ==
    /\ Failed
    /\ error = "Source not found for segment"
    /\ Len(segLog) = 1 /\ ~segLog[1].skipped
    /\ videoOut # <<>>

-----------------------------------------------------------------------------
(* Target audio profile *)

ProbeOver == pc \notin {"idle", "setup", "probe"} /\ fault # "getPrimaryAudioTrack"

Unmuted == { k \in 1..Len(segments) : ~segments[k].muted }

HasAudioTrack(k) ==
    /\ \E n \in 1..Len(sourceFiles) : sourceFiles[n].source_id = segments[k].source_id
    /\ media[segments[k].source_id].audio.present

ProfileFrom(k) ==
    << Min(48000, media[segments[k].source_id].audio.rate),
       media[segments[k].source_id].audio.channels >>

-----------------------------------------------------------------------------
(* Target frame size *)

Referenced ==
    { n \in 1..Len(sourceFiles) :
        \E k \in 1..Len(segments) : segments[k].source_id = sourceFiles[n].source_id }

IsLeast(v, field) ==
    /\ \E n \in Referenced : sourceFiles[n][field] = v
    /\ \A n \in Referenced : v <= sourceFiles[n][field]

SizeFixed == pc \notin {"idle", "setup"}

-----------------------------------------------------------------------------
\* Frames of the first n audio chunks that belong to segment k
RECURSIVE FramesOf(_, _)
FramesOf(k, n) ==
    IF n = 0 THEN 0
    ELSE FramesOf(k, n - 1) + (IF audioOut[n].seg = k THEN audioOut[n].numberOfFrames ELSE 0)

Abs(x) == IF x < 0 THEN 0 - x ELSE x

(* C11: for a muted segment that is not skipped, the only audio handed to  *)
(* the Sink is zero-filled chunks at the target sample rate and channel    *)
(* count, the first at the cursor value of the segment's start, and their  *)
(* total duration is min(end, sourceDuration) - start to within one chunk  *)
(* of 100 ms.                                                              *)
C11_MutedSegmentIsClampedSilence ==
    \A n \in 1..Len(segLog) :
       LET k       == segLog[n].seg
           segment == segments[k]
           chunks  == SamplesOf(audioOut, k)
       IN  (segment.muted /\ ~segLog[n].skipped) =>
             /\ \A a \in chunks :
                   /\ audioOut[a].silent
                   /\ audioOut[a].sampleRate = sampleRate
                   /\ audioOut[a].numberOfChannels = numberOfChannels
             /\ chunks # {} => audioOut[SetMin(chunks)].timestamp = segLog[n].before
             /\ Abs(1000 * FramesOf(k, Len(audioOut)) - ClampedDuration(segment) * sampleRate)
                   <= ChunkDurationMs * sampleRate
-----------------------------------------------------------------------------
\* The silence chunks of segment k, in the order they were handed over
SilenceOf(k) == SortedSeq({ a \in SamplesOf(audioOut, k) : audioOut[a].silent })

(* C12: generateSilence(startTime, duration), for every duration >= 0 and  *)
(* every sample rate (11025 Hz among them): the frame counts of its chunks *)
(* add up to duration * sampleRate to within one frame, the chunks are     *)
(* contiguous from startTime, and no chunk is longer than 100 ms.          *)
C12_SilenceMatchesDuration ==
    \A n \in 1..Len(segLog) :
       LET k       == segLog[n].seg
           segment == segments[k]
           chunks  == SilenceOf(k)
           chunk(c) == audioOut[chunks[c]]
       IN  (segment.muted /\ ~segLog[n].skipped /\ SegmentDuration(segment) >= 0) =>
             /\ Abs(1000 * FramesOf(k, Len(audioOut)) - SegmentDuration(segment) * sampleRate)
                   <= 1000
             /\ chunks # <<>> => chunk(1).timestamp = segLog[n].before
             /\ \A c \in 1..(Len(chunks) - 1) :
                   1000 * chunk(c).numberOfFrames
                     = (chunk(c + 1).timestamp - chunk(c).timestamp) * sampleRate
             /\ \A c \in 1..Len(chunks) :
                   1000 * chunk(c).numberOfFrames <= ChunkDurationMs * sampleRate
-----------------------------------------------------------------------------
\* some iteration of the segment loop ran to its end and reported progress
ProgressReported == \E n \in 1..Len(segLog) : ~segLog[n].skipped

(* C13: every reported progress value lies in [0,1]; before finalization   *)
(* it is at most 0.99 and equals min(0.99, processed / total nominal       *)
(* duration); the value 1 is reported only when the run is Complete.  For  *)
(* any segment list, a total nominal duration of 0 included.               *)
C13_ProgressInUnitInterval ==
    /\ progress.den > 0
    /\ 0 <= progress.num /\ progress.num <= progress.den
    /\ ~Complete => 100 * progress.num <= 99 * progress.den
    /\ (ProgressReported /\ ~Complete) =>
          progress = ProgressValue(processedDuration, totalDuration)
    /\ progress.num = progress.den => Complete
-----------------------------------------------------------------------------
(* Abort *)

\* the instance that started the run has left the tree
Aborted == runs > 0 /\ ~mounted

AllReleased == \A s \in SourceIds : disposed[s] = opened[s]

SessionClosed == output.state \in {"none", "finalized", "cancelled"}

(* C14: once the MainPlayer that started a run is unmounted or replaced,   *)
(* the run hands no further sample to the Sink and publishes no output     *)
(* buffer, and when it has come to rest every handle it opened is released *)
(* and the encoder session is closed or cancelled.  The resting state is   *)
(* stated for runs in which no library call threw and every source is      *)
(* listed, the steps after the abort for lists that are not empty.         *)
C14_AbortedRunStops ==
    /\ [][Aborted /\ segments # <<>> =>
                     /\ videoOut' = videoOut
                     /\ audioOut' = audioOut
                     /\ videoUrl' = videoUrl]_vars
    /\ []((Aborted /\ Terminal /\ fault = "none" /\ ~HasUnlistedSource) =>
             (AllReleased /\ SessionClosed))

(* C15: every run comes to an end: as long as it is neither Complete nor   *)
(* Failed the run has a next step to take, also when an awaited operation  *)
(* never completes (a timeout then fails the run).                         *)
C15_RunEndsOrCanStep == Terminal \/ ENABLED Next
-----------------------------------------------------------------------------
(* The queue *)

\* players whose conversion is executing and has not been cancelled
InFlight ==
    { p \in DOMAIN players :
        players[p].phase = "exec" /\ players[p].conversion = "running" }

(* C16: at most one SegmentPlayer has a conversion in flight at any time,  *)
(* and the player of segment k starts only after the players of the        *)
(* segments before it have signalled completion, in every interleaving     *)
(* with the queue resets of Execute and of a project change.               *)
C16_OneConversionAtATime ==
    /\ Cardinality(InFlight) <= 1
    /\ \A k \in 1..Len(segments) :
          players[<<resetKey, k>>].phase # "idle" =>
             \A j \in 1..(k - 1) :
                HasPlayer(j) => players[<<resetKey, j>>].phase = "done"
-----------------------------------------------------------------------------
(* C17: within a run getInput creates one Input per distinct source id it  *)
(* is called with, however often and from wherever (probe loop, segment    *)
(* loop) the id is requested: the number of Inputs created for an id is 1  *)
(* if it was requested and 0 if not.                                       *)
C17_OneHandlePerSource ==
    \A s \in SourceIds : opened[s] = IF s \in requested THEN 1 ELSE 0

\* one source requested by the probe loop and by two iterations of the
\* segment loop
C17_Witness ==
    /\ Len(segments) = 2
    /\ \A k \in 1..2 : segments[k].source_id = 1 /\ ~segments[k].muted
    /\ Len(segLog) = 2
    /\ requested = {1}
    /\ opened[1] = 1
-----------------------------------------------------------------------------
(* C18: one MainPlayer instance calls stitchVideos at most once, however   *)
(* often its mount effect fires, and a step taken after the run has ended  *)
(* starts no other run.                                                    *)
C18_RunStartsOnce ==
    /\ [](runs <= 1)
    /\ [][Terminal => (runs' = runs /\ pc' = pc)]_vars

\* the effect has fired a second time, the run it started the first time
\* has ended, and it is the only one
C18_Witness ==
    /\ effectRuns > 1
    /\ runs = 1
    /\ Terminal
-----------------------------------------------------------------------------
(* C19: every audio chunk handed to the Sink, decoded or synthesized, has  *)
(* the target sample rate and the target channel count of the run, also    *)
(* when the sources differ in sample rate or in channel count.             *)
C19_ChunksMatchTargetProfile ==
    \A a \in 1..Len(audioOut) :
       /\ audioOut[a].sampleRate = sampleRate
       /\ audioOut[a].numberOfChannels = numberOfChannels
-----------------------------------------------------------------------------
(* Order of the segments *)

InOrder(out) == \A n \in 1..(Len(out) - 1) : out[n].seg <= out[n + 1].seg

UpTo(out, k) == \A n \in 1..Len(out) : out[n].seg <= k

-----------------------------------------------------------------------------
(* C21: no Input is disposed while a segment is still unprocessed, every   *)
(* Input is disposed at most once, and when the loop has gone through      *)
(* every segment each Input that was opened is disposed exactly once       *)
(* before output.finalize() is called.                                     *)
C21_HandlesOutliveSegments ==
    /\ \A s \in SourceIds :
          /\ disposed[s] <= 1
          /\ disposed[s] > 0 => (i > Len(segments) /\ Len(segLog) = Len(segments))
    /\ (pc = "finalize" \/ output.finalizes > 0) =>
          (inputCache = {} /\ \A s \in SourceIds : disposed[s] = opened[s])

\* both sources were opened, both are disposed, finalize() is still to come
C21_Witness ==
    /\ pc = "finalize"
    /\ output.finalizes = 0
    /\ requested = SourceIds
    /\ \A s \in SourceIds : opened[s] = 1 /\ disposed[s] = 1
-----------------------------------------------------------------------------
(* C22: no step of a run decreases the timeline cursor, whatever the       *)
(* segment list, segments with end_ms <= start_ms included.                *)
C22_CursorNeverDecreases ==
    [][currentVideoTimestamp' >= currentVideoTimestamp]_vars
-----------------------------------------------------------------------------
(* Missing and undecodable tracks *)

MediumOf(k) == media[segments[k].source_id]

LacksVideo(k) == ~(MediumOf(k).hasVideo /\ MediumOf(k).videoDecodable)

\* unmuted, and the audio track is absent or cannot be decoded
LacksAudio(k) ==
    ~segments[k].muted /\ ~(MediumOf(k).audio.present /\ MediumOf(k).audio.decodable)

(* C23: a segment that is not skipped and whose video track, or whose      *)
(* audio track while unmuted, is absent or undecodable hands no sample of  *)
(* that kind to the Sink, has its other kind processed, and moves the      *)
(* cursor by its duration end - start; and a run fails only when a library *)
(* call throws, a source is unlisted or finalize() leaves no buffer, never *)
(* for a missing track.                                                    *)
C23_MissingTrackIsSkipped ==
    /\ \A n \in 1..Len(segLog) :
          LET k == segLog[n].seg
          IN  ~segLog[n].skipped =>
                /\ LacksVideo(k) => SamplesOf(videoOut, k) = {}
                /\ LacksAudio(k) => SamplesOf(audioOut, k) = {}
                /\ (LacksVideo(k) /\ ~LacksAudio(k)) => SamplesOf(audioOut, k) # {}
                /\ (LacksAudio(k) /\ ~LacksVideo(k)) => SamplesOf(videoOut, k) # {}
                /\ segLog[n].after = segLog[n].before + SegmentDuration(segments[k])
    /\ Failed => \/ fault # "none"
                 \/ HasUnlistedSource
                 \/ error = "No output buffer created"

\* a run that is Complete after a segment without usable video and a
\* segment without usable audio
C23_Witness ==
    /\ Complete
    /\ \E n1, n2 \in 1..Len(segLog) :
          /\ LacksVideo(segLog[n1].seg) /\ ~LacksAudio(segLog[n1].seg)
          /\ SamplesOf(audioOut, segLog[n1].seg) # {}
          /\ LacksAudio(segLog[n2].seg) /\ ~LacksVideo(segLog[n2].seg)
          /\ SamplesOf(videoOut, segLog[n2].seg) # {}
          /\ currentVideoTimestamp = 200
-----------------------------------------------------------------------------
(* C24: every decoded sample and every sample derived from one (cropped    *)
(* frame, resampled chunk, silence chunk) is closed right after its        *)
(* hand-off or its discard: between two steps of the run none is left      *)
(* unclosed, on every path, a failing add included.                        *)
C24_SamplesClosed == openSamples = 0
-----------------------------------------------------------------------------
(* C25: within a run output.start() is called at most once and exactly     *)
(* once before anything is added; every videoSource.add and audioSource.add*)
(* happens in a started session on which finalize() has not been called;   *)
(* finalize() is called at most once and only after the loop has gone      *)
(* through the last segment.                                               *)
C25_AddsBetweenStartAndFinalize ==
    /\ [](/\ output.starts <= 1
          /\ output.finalizes <= 1
          /\ (videoOut # <<>> \/ audioOut # <<>>) => output.starts = 1
          /\ output.finalizes > 0 =>
                (i > Len(segments) /\ Len(segLog) = Len(segments)))
    /\ [][(videoOut' # videoOut \/ audioOut' # audioOut) =>
             (output.state = "started" /\ output.finalizes = 0)]_vars

\* a Complete run that handed over frames and chunks
C25_Witness ==
    /\ Complete
    /\ output.starts = 1 /\ output.finalizes = 1
    /\ videoOut # <<>> /\ audioOut # <<>>
-----------------------------------------------------------------------------
(* Crop *)

\* the frame has the size sourceFiles declares for the source of its segment
AsDeclared(frame) ==
    LET file == sourceFiles[FindSource(segments[frame.seg].source_id)]
    IN  frame.codedWidth = file.width /\ frame.codedHeight = file.height

(* C26: for a frame whose coded size is the declared size of its source,   *)
(* the crop origin is sx = max(0, (w - tw)/2), sy = max(0, (h - th)/2) and *)
(* the tw x th rectangle at (sx, sy) lies inside the frame; every frame    *)
(* handed to the Sink has the target size; a frame that has the target     *)
(* size already is handed over as it is, uncropped.  sx and sy are counted *)
(* in half pixels.                                                         *)
C26_CropInsideFrame ==
    \A n \in 1..Len(videoOut) :
       LET frame == videoOut[n]
       IN  AsDeclared(frame) =>
             /\ frame.width = targetWidth /\ frame.height = targetHeight
             /\ frame.cropped =>
                   /\ frame.sx = Max(0, frame.codedWidth - targetWidth)
                   /\ frame.sy = Max(0, frame.codedHeight - targetHeight)
                   /\ frame.sx + 2 * targetWidth <= 2 * frame.codedWidth
                   /\ frame.sy + 2 * targetHeight <= 2 * frame.codedHeight
             /\ frame.cropped <=>
                   (frame.codedWidth # targetWidth \/ frame.codedHeight # targetHeight)

\* a frame cropped on both axes and a frame passed through, in one run
C26_Witness ==
    /\ \E n \in 1..Len(videoOut) :
          videoOut[n].cropped /\ videoOut[n].sx > 0 /\ videoOut[n].sy > 0
    /\ \E n \in 1..Len(videoOut) : ~videoOut[n].cropped
-----------------------------------------------------------------------------
\* C27: resampleAudio turns a sample of frameCount >= 1 frames at rate r into
\* one of exactly floor(frameCount * t / r) frames at the target rate t # r
\* with the same channel count, reading only source frames floor(i * r / t)
\* and min(floor(i * r / t) + 1, frameCount - 1), both in 0..frameCount - 1;
\* a sample already at the target rate is handed on unchanged
C27_ResampledFrameCount ==
    \A a \in 1..Len(audioOut) :
       LET chunk == audioOut[a]
       IN  ~chunk.silent =>
             /\ chunk.fromFrames >= 1
             /\ chunk.sampleRate = sampleRate
             /\ chunk.numberOfChannels = chunk.fromChannels
             /\ chunk.fromRate = sampleRate => chunk.numberOfFrames = chunk.fromFrames
             /\ chunk.fromRate # sampleRate =>
                   /\ chunk.numberOfFrames =
                         (chunk.fromFrames * sampleRate) \div chunk.fromRate
                   /\ \A n \in 0..(chunk.numberOfFrames - 1) :
                         /\ index1(n, chunk.fromRate, sampleRate)
                               \in 0..(chunk.fromFrames - 1)
                         /\ index2(n, chunk.fromRate, sampleRate, chunk.fromFrames)
                               \in 0..(chunk.fromFrames - 1)

-----------------------------------------------------------------------------
\* C28: the preview queue makes progress: a SegmentPlayer that starts calls
\* onComplete once, on success, failure or timeout, so processingIndex
\* reaches every index, also past a segment without a matching source.
\* As a property of finite runs: while segments are left, some step of a
\* SegmentPlayer (its effect, its conversion or its completion timer) can
\* be taken without the user pressing Execute
C28_QueueMakesProgress ==
    processingIndex < Len(segments) =>
        ENABLED (ProcessSegment \/ ConversionInit \/ ConversionSettles \/ CompletionTimer)

=============================================================================
